---- MODULE Spec2Model ----
(***************************************************************************)
(* Model of temprl/wrapper.py: TemporalGoal, StepController and            *)
(* TemporalGoalWrapper.  One wrapper instance is constructed in Init; the  *)
(* actions are the calls a client can make on it (reset, step) and on the  *)
(* step controller it passed in (check, reset).                            *)
(***************************************************************************)
EXTENDS Integers, Sequences, FiniteSets, TLC

\* ------------------------------------------------------------------ bounds
MaxGoals == 2
MaxEnvSteps == 2

\* Interpretations (sets of fluents), observations and actions are abstracted
\* to small integers.
Interpretations == {0, 1}
Observations == {0, 1}
Actions == {0, 1}

\* What a step of the inner environment can return: any observation, and
\* either a non-terminal result (reward 0) or a terminal one (reward 1), each
\* with its own info.
EnvOutcomes ==
  {[obs |-> o, reward |-> 0, done |-> FALSE, info |-> "running"] : o \in Observations}
  \cup {[obs |-> o, reward |-> 1, done |-> TRUE, info |-> "terminal"] : o \in Observations}

\* Python's None where an observation or an action is expected (reset passes
\* it to the fluent extractor as the action).
None == -1

\* The info of a call that returns none.
NoInfo == "no_info"

\* The value of a simulator's _current_state that the sources do not fix
\* (before the first reset).
NoState == -1

\* ------------------------------------------- automata (RewardDFA instances)
\* Two automata a TemporalGoal can be bound to.  "count" is
\* len(automaton.states); "accepting" is the accepting state; "reward" is the
\* reward of the temporal goal.
AutomatonIds == {1, 2}

RewardDFA ==
  [a \in AutomatonIds |->
     CASE a = 1 -> [count |-> 3, accepting |-> 2, reward |-> 10]
       [] a = 2 -> [count |-> 2, accepting |-> 1, reward |-> 100]]

\* Is the transition of automaton a from state s on symbol i defined?
\* Automaton 2 has no transition out of its state 1 on symbol 1; nothing is
\* defined from NoState.
transition_defined(a, s, i) ==
  /\ s \in 0 .. (RewardDFA[a].count - 1)
  /\ ~(a = 2 /\ s = 1 /\ i = 1)

\* The transition function of the automata.
\*   1: counts symbols other than 0, saturating in its last state;
\*   2: moves to state 1 on symbol 0 and stays there on symbol 0 (partial,
\*      see above).
transition(a, s, i) ==
  CASE a = 1 -> IF i # 0 /\ s < 2 THEN s + 1 ELSE s
    [] a = 2 -> IF i = 0 THEN 1 ELSE s

\* The initial state of automaton a on the initial interpretation i.
initial_state(a, i) ==
  CASE a = 1 -> IF i = 0 THEN 0 ELSE 1
    [] a = 2 -> 0

\* RewardDFASimulator.reset: computes the initial state, stores and returns it.
simulator_reset(a, i) ==
  [_current_state |-> initial_state(a, i), state |-> initial_state(a, i)]

\* RewardDFASimulator.step from the stored state s: raises on an undefined
\* transition (nothing stored), else stores and returns the new state with the
\* reward of the transition (the goal's reward on entering the accepting state).
simulator_step(a, s, i) ==
  IF ~transition_defined(a, s, i)
  THEN [raised |-> TRUE, _current_state |-> s, state |-> s, reward |-> 0]
  ELSE LET t == transition(a, s, i)
       IN  [raised |-> FALSE, _current_state |-> t, state |-> t,
            reward |-> IF t = RewardDFA[a].accepting /\ s # t
                       THEN RewardDFA[a].reward ELSE 0]

\* ------------------------------------------------------------------- state
VARIABLES
  temp_goals,         \* self.temp_goals: the automaton of each goal, in order
  step_controller,    \* self.step_controller: [step_func, allow_first]
  started,            \* self.step_controller.started
  current_state,      \* tg._simulator._current_state, per goal
  env_steps,          \* inner environment: steps taken since its last reset
  was_reset,          \* wrapper reset() has been called at least once
  inner,              \* what the inner environment returned in the last call
  ret,                \* what the last call returned (or that it raised)
  prev_state,         \* current_state at the entry of the last call
  checks,             \* the controller checks made by the last call, in order
  temp_goal_rewards,  \* the per-goal rewards of the last step
  checked,            \* check has been called since the controller's reset
  fired,              \* step_func has returned True since the controller's reset
  passed,             \* a check has returned True since the controller's reset
  controller_arg,     \* the step_controller argument __init__ was given
  last_action,        \* the action argument of the last call, if a step()
  extractor_calls     \* the fluent extractor's calls in the last call: arguments

vars == <<temp_goals, step_controller, started, current_state, env_steps,
          was_reset, inner, ret, prev_state, checks, temp_goal_rewards,
          checked, fired, passed, controller_arg, last_action,
          extractor_calls>>

\* ------------------------------------------------------------ TemporalGoal
\* Variant: the space is one state short of the automaton.
observation_space_short(a) == RewardDFA[a].count - 1

\* TemporalGoal.observation_space: Discrete(len(self._automaton.states)).n
observation_space(a) == RewardDFA[a].count

\* TemporalGoal.reset
TemporalGoal_reset(a, initial_obs) == simulator_reset(a, initial_obs)

\* Variant: the step is taken from the first state, not the stored one.
TemporalGoal_step_from_initial(a, s, symbol) == simulator_step(a, 0, symbol)

\* Variant: a failure of the simulator is swallowed.
TemporalGoal_step_swallows(a, s, symbol) ==
  [simulator_step(a, s, symbol) EXCEPT !.raised = FALSE]

\* TemporalGoal.step
TemporalGoal_step(a, s, symbol) == simulator_step(a, s, symbol)

\* Variant: reports the first state instead of the stored one.
current_dfa_state_initial(s) == 0

\* TemporalGoal.current_dfa_state
current_dfa_state(s) == s

\* ---------------------------------------------------------- StepController
\* The step functions a controller can be built with: the set of
\* interpretations on which step_func returns True.
StepFuncs == SUBSET Interpretations

step_func(fluents) == fluents \in step_controller.step_func

\* Variant: allow_first is ignored, the first check consults step_func.
StepController_check_no_first(st, fluents) ==
  IF ~st
  THEN [ret |-> step_func(fluents), started |-> step_func(fluents)]
  ELSE [ret |-> step_func(fluents), started |-> st]

\* Variant: once started, every check passes.
StepController_check_latched(st, fluents) ==
  IF step_controller.allow_first /\ ~st
  THEN [ret |-> TRUE, started |-> TRUE]
  ELSE IF ~st
  THEN [ret |-> step_func(fluents), started |-> step_func(fluents)]
  ELSE [ret |-> TRUE, started |-> st]

\* Variant: the last branch also assigns self.started.
StepController_check_restarts(st, fluents) ==
  IF step_controller.allow_first /\ ~st
  THEN [ret |-> TRUE, started |-> TRUE]
  ELSE [ret |-> step_func(fluents), started |-> step_func(fluents)]

\* Variant: once started, the step function's answer is negated.
StepController_check_negated(st, fluents) ==
  IF step_controller.allow_first /\ ~st
  THEN [ret |-> TRUE, started |-> TRUE]
  ELSE IF ~st
  THEN [ret |-> step_func(fluents), started |-> step_func(fluents)]
  ELSE [ret |-> ~step_func(fluents), started |-> st]

\* StepController.check, from the value st of self.started: the returned
\* boolean and the new value of self.started.
StepController_check(st, fluents) ==
  IF step_controller.allow_first /\ ~st
  THEN [ret |-> TRUE, started |-> TRUE]
  ELSE IF ~st
  THEN [ret |-> step_func(fluents), started |-> step_func(fluents)]
  ELSE [ret |-> step_func(fluents), started |-> st]

\* StepController.reset: the new value of self.started.
StepController_reset == FALSE

\* Does check, from started = st, call step_func?
evaluates_step_func(st) == ~(step_controller.allow_first /\ ~st)

\* ----------------------------------------------------- TemporalGoalWrapper
\* Variant: the default controller's step function never allows a step.
default_step_controller_never == [step_func |-> {}, allow_first |-> TRUE]

\* __init__: the controller given, or the default one.
default_step_controller == [step_func |-> Interpretations, allow_first |-> TRUE]

\* The step_controller argument is a sequence: empty for None, else the
\* controller given.
init_step_controller(arg) ==
  IF Len(arg) > 0 THEN arg[1] ELSE default_step_controller

\* _get_observation_space: the shape of the MultiDiscrete part.
temp_goals_shape == [k \in 1 .. Len(temp_goals) |-> observation_space(temp_goals[k])]

\* The fluent extractor given to the wrapper (a pure function of the
\* observation and the action, None at reset).
fluent_extractor(obs, action) ==
  (obs + (IF action = None THEN 0 ELSE action)) % 2

\* reset(): the arguments of self.fluent_extractor(obs, None)
reset_extractor_args(obs) == [obs |-> obs, action |-> None]

\* Variant: the extractor is given no action.
step_extractor_args_no_action(obs, action) == [obs |-> obs, action |-> None]

\* step(): the arguments of self.fluent_extractor(obs, action)
step_extractor_args(obs, action) == [obs |-> obs, action |-> action]

\* The value of a goal that is not stepped: (tg.current_dfa_state(), 0.0)
not_stepped(s) ==
  [raised |-> FALSE, _current_state |-> s, state |-> current_dfa_state(s),
   reward |-> 0]

\* The list comprehension of step(): goals k, k+1, ... in order, each one
\* after a check of the shared controller; it stops at the first goal whose
\* step raises.
RECURSIVE states_and_rewards(_, _, _)
states_and_rewards(k, fluents, acc) ==
  IF k > Len(temp_goals) \/ acc.raised THEN acc
  ELSE LET c == StepController_check(acc.started, fluents)
           r == IF c.ret
                THEN TemporalGoal_step(temp_goals[k], acc.current_state[k], fluents)
                ELSE not_stepped(acc.current_state[k])
           entry == [started |-> acc.started, fluents |-> fluents,
                     ret |-> c.ret, after |-> c.started,
                     checked |-> acc.checked, fired |-> acc.fired,
                     passed |-> acc.passed]
       IN  states_and_rewards(k + 1, fluents,
             [raised |-> r.raised,
              started |-> c.started,
              current_state |-> [acc.current_state EXCEPT ![k] = r._current_state],
              out |-> IF r.raised THEN acc.out
                      ELSE Append(acc.out, [state |-> r.state, reward |-> r.reward]),
              checks |-> Append(acc.checks, entry),
              checked |-> TRUE,
              fired |-> acc.fired \/ (evaluates_step_func(acc.started) /\ step_func(fluents)),
              passed |-> acc.passed \/ c.ret])

\* Variant: the states come out in reverse order.
next_automata_states_reversed(out) ==
  [k \in 1 .. Len(out) |-> out[Len(out) + 1 - k].state]

\* zip(*states_and_rewards): the two tuples.
next_automata_states(out) == [k \in 1 .. Len(out) |-> out[k].state]

goal_rewards(out) == [k \in 1 .. Len(out) |-> out[k].reward]

\* sum(temp_goal_rewards)
RECURSIVE sum(_)
sum(s) == IF Len(s) = 0 THEN 0 ELSE s[1] + sum(Tail(s))

\* Variant: the reward of the inner environment is dropped.
reward_prime_goals_only(reward, total_goal_rewards) == total_goal_rewards

\* reward_prime = reward + total_goal_rewards
reward_prime(reward, total_goal_rewards) == reward + total_goal_rewards

NoInner == [obs |-> None, reward |-> 0, done |-> FALSE, info |-> NoInfo]

\* Variant: done is reported False.
Returned_not_done(op, obs, states, reward, done, info) ==
  [op |-> op, raised |-> "no", obs |-> obs, states |-> states,
   reward |-> reward, done |-> FALSE, info |-> info, value |-> FALSE]

Returned(op, obs, states, reward, done, info) ==
  [op |-> op, raised |-> "no", obs |-> obs, states |-> states,
   reward |-> reward, done |-> done, info |-> info, value |-> FALSE]

Raised(op, exc) ==
  [op |-> op, raised |-> exc, obs |-> None, states |-> <<>>,
   reward |-> 0, done |-> FALSE, info |-> NoInfo, value |-> FALSE]

\* ------------------------------------------------------------------- Init
GoalLists == UNION {[1 .. n -> AutomatonIds] : n \in 0 .. MaxGoals}

ControllerArgs ==
  {<<>>} \cup {<<c>> : c \in [step_func : StepFuncs, allow_first : BOOLEAN]}

\* After TemporalGoalWrapper.__init__ (and the constructors of its goals and
\* of its controller).  The simulators' stored states are whatever their
\* constructor leaves: a state of the automaton, or none.
Init ==
  /\ temp_goals \in GoalLists
  /\ controller_arg \in ControllerArgs
  /\ step_controller = init_step_controller(controller_arg)
  /\ started = FALSE
  /\ current_state \in {[k \in 1 .. Len(temp_goals) |-> 0],
                        [k \in 1 .. Len(temp_goals) |-> NoState]}
  /\ env_steps = 0
  /\ was_reset = FALSE
  /\ inner = NoInner
  /\ ret = Raised("init", "no")
  /\ prev_state = current_state
  /\ checks = <<>>
  /\ temp_goal_rewards = <<>>
  /\ checked = FALSE
  /\ fired = FALSE
  /\ passed = FALSE
  /\ last_action = None
  /\ extractor_calls = <<>>

\* ---------------------------------------------------------------- actions
\* Variant: the goals are stepped on the initial interpretation instead of
\* being reset.
reset_by_stepping ==
  \E obs \in Observations :
    LET args == reset_extractor_args(obs)
        fluents == fluent_extractor(args.obs, args.action)
        rs == [k \in 1 .. Len(temp_goals) |->
                 TemporalGoal_step(temp_goals[k], current_state[k], fluents)]
    IN  /\ env_steps' = 0
        /\ was_reset' = TRUE
        /\ inner' = [obs |-> obs, reward |-> 0, done |-> FALSE, info |-> NoInfo]
        /\ prev_state' = current_state
        /\ current_state' = [k \in 1 .. Len(temp_goals) |-> rs[k]._current_state]
        /\ ret' = Returned("reset", obs, [k \in 1 .. Len(temp_goals) |-> rs[k].state],
                           0, FALSE, NoInfo)
        /\ checks' = <<>>
        /\ temp_goal_rewards' = <<>>
        /\ last_action' = None
        /\ extractor_calls' = <<args>>
        /\ UNCHANGED <<temp_goals, step_controller, started, checked, fired, passed,
                       controller_arg>>

\* TemporalGoalWrapper.reset()
reset ==
  \E obs \in Observations :
    LET args == reset_extractor_args(obs)
        fluents == fluent_extractor(args.obs, args.action)
        rs == [k \in 1 .. Len(temp_goals) |-> TemporalGoal_reset(temp_goals[k], fluents)]
        automata_states == [k \in 1 .. Len(temp_goals) |-> rs[k].state]
    IN  /\ env_steps' = 0
        /\ was_reset' = TRUE
        /\ inner' = [obs |-> obs, reward |-> 0, done |-> FALSE, info |-> NoInfo]
        /\ prev_state' = current_state
        /\ current_state' = [k \in 1 .. Len(temp_goals) |-> rs[k]._current_state]
        /\ ret' = Returned("reset", obs, automata_states, 0, FALSE, NoInfo)
        /\ checks' = <<>>
        /\ temp_goal_rewards' = <<>>
        /\ last_action' = None
        /\ extractor_calls' = <<args>>
        /\ UNCHANGED <<temp_goals, step_controller, started, checked, fired, passed,
                       controller_arg>>

\* TemporalGoalWrapper.step(action)
step(action) ==
  /\ env_steps < MaxEnvSteps
  /\ \E e \in EnvOutcomes :
       LET obs == e.obs
           reward == e.reward
           done == e.done
           info == e.info
           args == step_extractor_args(obs, action)
           fluents == fluent_extractor(args.obs, args.action)
       IN  \E acc \in {states_and_rewards(1, fluents,
                          [raised |-> FALSE, started |-> started,
                           current_state |-> current_state, out |-> <<>>,
                           checks |-> <<>>, checked |-> checked, fired |-> fired,
                           passed |-> passed])} :
             LET rewards == goal_rewards(acc.out)
             IN  /\ env_steps' = env_steps + 1
                 /\ inner' = e
                 /\ prev_state' = current_state
                 /\ current_state' = acc.current_state
                 /\ started' = acc.started
                 /\ checked' = acc.checked
                 /\ fired' = acc.fired
                 /\ passed' = acc.passed
                 /\ checks' = acc.checks
                 /\ temp_goal_rewards' = rewards
                 /\ ret' = IF acc.raised THEN Raised("step", "UndefinedTransition")
                           ELSE IF Len(acc.out) = 0 THEN Raised("step", "ValueError")
                           ELSE Returned("step", obs, next_automata_states(acc.out),
                                         reward_prime(reward, sum(rewards)), done, info)
                 /\ last_action' = action
                 /\ extractor_calls' = <<args>>
                 /\ UNCHANGED <<temp_goals, step_controller, was_reset, controller_arg>>

\* A direct call of step_controller.check(fluents) by the client.
check(fluents) ==
  LET c == StepController_check(started, fluents)
  IN  /\ started' = c.started
      /\ checks' = <<[started |-> started, fluents |-> fluents, ret |-> c.ret,
                      after |-> c.started, checked |-> checked, fired |-> fired,
                      passed |-> passed]>>
      /\ checked' = TRUE
      /\ fired' = (fired \/ (evaluates_step_func(started) /\ step_func(fluents)))
      /\ passed' = (passed \/ c.ret)
      /\ ret' = [Raised("check", "no") EXCEPT !.value = c.ret]
      /\ prev_state' = current_state
      /\ temp_goal_rewards' = <<>>
      /\ last_action' = None
      /\ extractor_calls' = <<>>
      /\ inner' = NoInner
      /\ UNCHANGED <<temp_goals, step_controller, current_state, env_steps,
                     was_reset, controller_arg>>

\* A direct call of step_controller.reset() by the client.
controller_reset ==
  /\ started' = StepController_reset
  /\ checked' = FALSE
  /\ fired' = FALSE
  /\ passed' = FALSE
  /\ ret' = Raised("controller_reset", "no")
  /\ checks' = <<>>
  /\ prev_state' = current_state
  /\ temp_goal_rewards' = <<>>
  /\ last_action' = None
  /\ extractor_calls' = <<>>
  /\ inner' = NoInner
  /\ UNCHANGED <<temp_goals, step_controller, current_state, env_steps,
                 was_reset, controller_arg>>

Next ==
  \/ reset
  \/ \E action \in Actions : step(action)
  \/ \E fluents \in Interpretations : check(fluents)
  \/ controller_reset

Spec == Init /\ [][Next]_vars

\* The behaviours in which the client calls only the wrapper: every check of
\* the controller is one made by step().
WrapperNext ==
  \/ reset
  \/ \E action \in Actions : step(action)

WrapperSpec == Init /\ [][WrapperNext]_vars

\* ------------------------------------------------------------- properties
\* The last call was a wrapper step() that returned.
StepReturned == ret.op = "step" /\ ret.raised = "no"

\* The reward goal k's step returns from the state it had at the entry of
\* the last call, on the interpretation of that call.
tracker_reward(k) ==
  TemporalGoal_step(temp_goals[k], prev_state[k], checks[k].fluents).reward

\* C1: the reward returned by a wrapper step is the inner environment's reward
\* plus, over all goals, the reward of the goal's step when the controller
\* check made for it returned true and 0 when it returned false.
C1_RewardAggregation ==
  StepReturned =>
    ret.reward = inner.reward
                 + sum([k \in 1 .. Len(temp_goals) |->
                          IF checks[k].ret THEN tracker_reward(k) ELSE 0])

\* A returned step with a positive inner reward in which one goal passed its
\* check and earned its reward and another goal was gated out.
C1_Witness ==
  /\ StepReturned
  /\ was_reset
  /\ inner.reward > 0
  /\ \E j, k \in 1 .. Len(temp_goals) :
       /\ checks[j].ret /\ tracker_reward(j) > 0
       /\ ~checks[k].ret

\* C2: immediately after wrapper reset() returns, the step controller is
\* NotStarted (started is false).
C2_ResetReinitializesController ==
  ret.op = "reset" => ~started

\* The last call was the first wrapper step() after a wrapper reset().
FirstStepAfterReset == ret.op = "step" /\ was_reset /\ env_steps = 1

\* C3: with two goals sharing a controller that has allow_first, the first
\* wrapper step after reset advances both goals whatever step_func says, and
\* its reward is the inner reward plus the rewards of both goals' steps.
C3_FirstStepAdvancesAll ==
  (/\ FirstStepAfterReset
   /\ ret.raised = "no"
   /\ Len(temp_goals) = 2
   /\ step_controller.allow_first)
  => /\ checks[1].ret
     /\ checks[2].ret
     /\ ret.reward = inner.reward + tracker_reward(1) + tracker_reward(2)

\* C4: in a wrapper step, a goal whose check returned false keeps its state,
\* is reported with that state and with reward 0; and only goals whose check
\* returned true change state.
C4_GatedOutUnchanged ==
  ret.op = "step" =>
    /\ \A k \in 1 .. Len(checks) :
         ~checks[k].ret =>
           /\ current_state[k] = prev_state[k]
           /\ (ret.raised = "no") =>
                (/\ ret.states[k] = prev_state[k]
                 /\ temp_goal_rewards[k] = 0)
    /\ \A k \in 1 .. Len(temp_goals) :
         (current_state[k] # prev_state[k]) => (k <= Len(checks) /\ checks[k].ret)

\* A returned step in which one goal advanced to a new state and another
\* goal, gated out, stayed in a state other than its first one.
C4_Witness ==
  /\ StepReturned
  /\ was_reset
  /\ \E j, k \in 1 .. Len(temp_goals) :
       /\ checks[j].ret /\ current_state[j] # prev_state[j]
       /\ ~checks[k].ret /\ prev_state[k] > 0 /\ ret.states[k] = prev_state[k]

\* C5: with allow_first, the first check after the controller's construction
\* or reset returns true and leaves the controller started, whatever the
\* interpretation and step_func.
C5_FirstCheckPasses ==
  \A k \in 1 .. Len(checks) :
    (step_controller.allow_first /\ ~checks[k].checked) =>
      (checks[k].ret /\ checks[k].after)

\* A first check that passed on an interpretation step_func rejects.
C5_Witness ==
  /\ step_controller.allow_first
  /\ Len(checks) > 0
  /\ ~checks[1].checked
  /\ ~step_func(checks[1].fluents)
  /\ checks[1].ret
  /\ started

\* C6: without allow_first, a check returns false as long as step_func has
\* not returned true since the controller's reset, true on the first
\* interpretation step_func accepts, and step_func's value ever after.
C6_LatchedActivation ==
  \A k \in 1 .. Len(checks) :
    ~step_controller.allow_first =>
      /\ (~checks[k].fired /\ ~step_func(checks[k].fluents)) => ~checks[k].ret
      /\ (~checks[k].fired /\ step_func(checks[k].fluents)) => checks[k].ret
      /\ checks[k].fired => (checks[k].ret = step_func(checks[k].fluents))
      /\ checks[k].fired = checks[k].started

\* A check, after activation, that returned false because step_func did.
C6_Witness ==
  /\ ~step_controller.allow_first
  /\ \E k \in 1 .. Len(checks) :
       checks[k].fired /\ ~step_func(checks[k].fluents) /\ ~checks[k].ret

\* What one call may do to started, read from the checks it made.
StartedDiscipline ==
  /\ \A k \in 1 .. Len(checks') :
       /\ checks'[k].started => checks'[k].after
       /\ ~checks'[k].started => (checks'[k].after = checks'[k].ret)
       /\ ~checks'[k].started => ~checks'[k].passed
       /\ checks'[k].started = (IF k = 1 THEN started ELSE checks'[k - 1].after)
  /\ (Len(checks') > 0) => (started' = checks'[Len(checks')].after)
  /\ (Len(checks') = 0 /\ ret'.op # "controller_reset") => (started' = started)
  /\ (started /\ ~started') => (ret'.op = "controller_reset")

\* C7: started goes from false to true only in a check that returns true,
\* the first to do so since the controller's reset; a check made while
\* started leaves it true; only the controller's reset() makes it false.
C7_StartedFlipsOnce == [][StartedDiscipline]_vars

\* A call whose first check started the controller and whose second check,
\* made while started, returned false and left it started.
C7_Witness ==
  /\ Len(checks) >= 2
  /\ ~checks[1].started /\ checks[1].ret
  /\ checks[2].started /\ ~checks[2].ret
  /\ started

\* The outcome goal k would have in the last step if the check made for it
\* were the first one of the step: whether it advances, its state, its reward.
alone(k) ==
  LET c == StepController_check(checks[1].started, checks[k].fluents)
      r == TemporalGoal_step(temp_goals[k], prev_state[k], checks[k].fluents)
  IN  [advances |-> c.ret,
       state |-> IF c.ret THEN r.state ELSE prev_state[k],
       reward |-> IF c.ret THEN r.reward ELSE 0]

\* C8: in a returned step, whether a goal advances, its resulting state and
\* its reward are what they are for that goal at any other position of the
\* list (in particular the first) with the same controller state at entry.
C8_PositionIndependent ==
  StepReturned =>
    \A k \in 1 .. Len(temp_goals) :
      /\ checks[k].ret = alone(k).advances
      /\ ret.states[k] = alone(k).state
      /\ temp_goal_rewards[k] = alone(k).reward

\* C9: once the wrapper has been reset, every goal's current state is a
\* state of its automaton: it lies in 0 .. observation_space - 1.
C9_StateValid ==
  was_reset =>
    \A k \in 1 .. Len(temp_goals) :
      current_state[k] \in 0 .. (temp_goals_shape[k] - 1)

\* After a step, a goal is in the last state of its automaton.
C9_Witness ==
  /\ was_reset
  /\ ret.op = "step"
  /\ \E k \in 1 .. Len(temp_goals) :
       /\ current_state[k] = temp_goals_shape[k] - 1
       /\ current_state[k] # prev_state[k]

\* C10: the vector of goal states returned by reset() and by step() has one
\* entry per goal, and entry k is the current state of goal k.
C10_VectorInOrder ==
  (ret.op \in {"reset", "step"} /\ ret.raised = "no") =>
    /\ Len(ret.states) = Len(temp_goals)
    /\ \A k \in 1 .. Len(temp_goals) : ret.states[k] = current_state[k]

\* A returned step in which the first goal advanced, the second was gated
\* out, and the two entries of the vector differ.
C10_Witness ==
  /\ StepReturned
  /\ Len(temp_goals) = 2
  /\ checks[1].ret /\ ~checks[2].ret
  /\ ret.states[1] # ret.states[2]

\* The vector of initial states of the goals on the interpretation of the
\* initial observation obs.
initial_vector(obs) ==
  [k \in 1 .. Len(temp_goals) |->
     initial_state(temp_goals[k], fluent_extractor(obs, None))]

\* What a reset() may return, given the call before it.
ResetIdempotent ==
  (ret'.op = "reset") =>
    /\ (ret.op = "reset" /\ ret.obs = ret'.obs) => (ret'.states = ret.states)
    /\ ret'.states = initial_vector(ret'.obs)

\* C11: two consecutive reset() calls on the same initial observation return
\* the same vector of goal states, and the vector a reset() returns is fixed
\* by the initial observation, whatever steps came before.
C11_ResetIdempotent == [][ResetIdempotent]_vars

\* A reset() that returned, for a goal that the steps before had moved, a
\* state different from the one the goal was in.
C11_Witness ==
  /\ ret.op = "reset"
  /\ passed
  /\ \E k \in 1 .. Len(temp_goals) :
       prev_state[k] # NoState /\ prev_state[k] # ret.states[k]

\* C12: a step() made before any reset() raises, and advances neither the
\* inner environment nor any goal (stated for wrappers that have goals).
C12_StepBeforeResetFails ==
  (ret.op = "step" /\ ~was_reset /\ Len(temp_goals) > 0) =>
    /\ ret.raised # "no"
    /\ env_steps = 0
    /\ current_state = prev_state

\* What a step() in which a goal's step raises may change (in an episode
\* begun by reset()).
RaisingStepCommitsNothing ==
  (ret'.op = "step" /\ ret'.raised = "UndefinedTransition" /\ was_reset) =>
    /\ current_state' = current_state
    /\ started' = started
    /\ env_steps' = env_steps

\* C13: a step() in which a goal's step raises leaves the goals' states, the
\* controller's started flag and the inner environment as they were before
\* the call.
C13_RaisingStepCommitsNothing == [][RaisingStepCommitsNothing]_vars

\* C14: no wrapper with an empty list of goals gets to reset() or step():
\* its construction raises.
C14_EmptyGoalsRejected ==
  (Len(temp_goals) = 0) => (ret.op \notin {"reset", "step"})

\* C15: a wrapper constructed without a controller has an always-allow
\* controller with allow_first: every check of every step returns true, every
\* goal of a returned step advances, and the step's reward is the inner
\* reward plus the reward of every goal's step.
C15_DefaultControllerAllowsAll ==
  (Len(controller_arg) = 0) =>
    /\ step_controller.allow_first
    /\ step_controller.step_func = Interpretations
    /\ (ret.op = "step") => (\A k \in 1 .. Len(checks) : checks[k].ret)
    /\ StepReturned =>
         /\ Len(checks) = Len(temp_goals)
         /\ ret.reward = inner.reward
                          + sum([k \in 1 .. Len(temp_goals) |-> tracker_reward(k)])

\* A returned second step of an episode, under the default controller, in
\* which two goals advanced and one earned its reward.
C15_Witness ==
  /\ Len(controller_arg) = 0
  /\ StepReturned
  /\ was_reset
  /\ env_steps = 2
  /\ Len(temp_goals) = 2
  /\ checks[1].ret /\ checks[2].ret
  /\ ret.reward > inner.reward

\* C16: a returned step() carries the inner environment's observation, done
\* flag and info as the inner environment returned them.
C16_PassThrough ==
  StepReturned =>
    /\ ret.obs = inner.obs
    /\ ret.done = inner.done
    /\ ret.info = inner.info

\* A returned terminal step in which one goal advanced and another was
\* gated out.
C16_Witness ==
  /\ StepReturned
  /\ was_reset
  /\ inner.done /\ ret.done /\ ret.info = "terminal"
  /\ \E j, k \in 1 .. Len(temp_goals) : checks[j].ret /\ ~checks[k].ret

\* The interpretation of the last call, from the extractor's only call.
call_fluents == fluent_extractor(extractor_calls[1].obs, extractor_calls[1].action)

\* C17: reset() calls the fluent extractor once, on the initial observation
\* and None; step() calls it once, on the observation the inner environment
\* just returned and the action; that one interpretation is the one every
\* controller check and every goal's reset or step of the call receives.
C17_ExtractorOncePerCall ==
  /\ (ret.op = "reset") =>
       /\ extractor_calls = <<[obs |-> inner.obs, action |-> None]>>
       /\ \A k \in 1 .. Len(temp_goals) :
            current_state[k] = simulator_reset(temp_goals[k], call_fluents)._current_state
  /\ (ret.op = "step") =>
       /\ extractor_calls = <<[obs |-> inner.obs, action |-> last_action]>>
       /\ env_steps > 0
       /\ \A k \in 1 .. Len(checks) :
            /\ checks[k].fluents = call_fluents
            /\ checks[k].ret =>
                 current_state[k] =
                   simulator_step(temp_goals[k], prev_state[k], call_fluents)._current_state
  /\ (ret.op \notin {"reset", "step"}) => (extractor_calls = <<>>)

\* A returned step with an action that changes the interpretation, in which
\* two goals were checked and stepped.
C17_Witness ==
  /\ StepReturned
  /\ was_reset
  /\ last_action = 1
  /\ Len(checks) = 2
  /\ checks[1].ret /\ checks[2].ret
  /\ call_fluents # fluent_extractor(inner.obs, None)

\* C18: a goal's reset and step store the state they return; step starts
\* from the stored state; reading the current state changes nothing.
C18_TrackerStoresReturnedState ==
  /\ (ret.op = "reset") =>
       \A k \in 1 .. Len(temp_goals) : current_state[k] = ret.states[k]
  /\ StepReturned =>
       \A k \in 1 .. Len(temp_goals) :
         /\ checks[k].ret =>
              /\ current_state[k] = ret.states[k]
              /\ ret.states[k] =
                   transition(temp_goals[k], prev_state[k], checks[k].fluents)
         /\ ~checks[k].ret => (current_state[k] = prev_state[k])

\* A returned step in which a goal moved on from a state other than its
\* first one.
C18_Witness ==
  /\ StepReturned
  /\ was_reset
  /\ \E k \in 1 .. Len(temp_goals) :
       /\ checks[k].ret
       /\ prev_state[k] > 0
       /\ current_state[k] # prev_state[k]

\* A goal that the last step stepped had no transition from its state.
UndefinedTransitionHit ==
  /\ ret.op = "step"
  /\ \E k \in 1 .. Len(checks) :
       /\ checks[k].ret
       /\ ~transition_defined(temp_goals[k], prev_state[k], checks[k].fluents)

\* C19: when a goal's step signals an undefined transition, step() raises
\* that failure and returns no observation, state or reward.
C19_UndefinedTransitionPropagates ==
  UndefinedTransitionHit => (ret = Raised("step", "UndefinedTransition"))

\* After a reset, the second goal's automaton had no transition from a
\* state it had reached, and the step raised.
C19_Witness ==
  /\ UndefinedTransitionHit
  /\ was_reset
  /\ Len(checks) = 2
  /\ prev_state[2] > 0
  /\ ret.raised = "UndefinedTransition"

\* C20: step() checks the one shared controller once per goal, in order;
\* unless the step found the controller not started with allow_first, every
\* goal gets the same decision.
C20_SameGateDecision ==
  (ret.op = "step") =>
    /\ Len(checks) <= Len(temp_goals)
    /\ StepReturned => (Len(checks) = Len(temp_goals))
    /\ \A k \in 2 .. Len(checks) : checks[k].started = checks[k - 1].after
    /\ (Len(checks) > 0 /\ (~step_controller.allow_first \/ checks[1].started)) =>
         (\A k \in 1 .. Len(checks) : checks[k].ret = checks[1].ret)

\* A returned step of two goals in which the first check started a
\* controller without allow_first, and both goals advanced.
C20_Witness ==
  /\ StepReturned
  /\ ~step_controller.allow_first
  /\ Len(checks) = 2
  /\ ~checks[1].started
  /\ checks[1].ret /\ checks[2].ret

====
